---------------------------- MODULE Spec2Model ----------------------------
(***************************************************************************)
(* The activities sign-up client of src/static/app.js as a state machine.  *)
(*                                                                         *)
(* The client is single threaded: every stretch of code between two        *)
(* awaits runs to completion, so each such stretch is one action.  The     *)
(* two awaits of a handler (await fetch(...), await response.json()) are   *)
(* merged: nothing the handler can observe changes between them.  The HTTP *)
(* server and the network are the environment; the server is modelled      *)
(* from the specification (section 6), it is not part of app.js.           *)
(*                                                                         *)
(* Texts are sequences of string fragments (<<>> is the empty string).     *)
(* Time is kept relative: each pending timer holds the milliseconds left   *)
(* until it fires, and the clock never passes a due timer (the simulated   *)
(* clock of the specification's section 8).                                *)
(***************************************************************************)
EXTENDS Integers, Sequences, FiniteSets, Bags, TLC

\* ------------------------------------------------------------------ bounds

\* Signup submissions plus unregister clicks in one run.
MaxOps == 2

\* ------------------------------------------------------- program constants

\* setTimeout(..., 5000) of showMessage.
HideDelay == 5000

\* The largest step of the clock, in ms: a message can be shown half-way
\* through the life of an earlier one.
TickMs == HideDelay \div 2

\* ------------------------------------------------------------ the universe

Emails == {"a@x.com", "b@x.com"}

\* The server's activities, in the key order of its GET /activities response.
ActivityOrder == <<"Chess Club", "Art Club">>

ActivityNames == {ActivityOrder[i] : i \in DOMAIN ActivityOrder}

Description(name) == IF name = "Chess Club" THEN "Learn chess" ELSE "Paint"

Schedule(name) == IF name = "Chess Club" THEN "Mon 3pm" ELSE "Tue 4pm"

\* The server does not enforce the capacity (specification, section 3).
MaxParticipants(name) == IF name = "Chess Club" THEN 1 ELSE 2

InitialParticipants(name) == IF name = "Chess Club" THEN <<"a@x.com">> ELSE <<>>

\* ----------------------------------------------------------------- helpers

Range(s) == {s[i] : i \in DOMAIN s}

\* Calls in flight are bags: the runtime keeps no order among suspended calls.
Put(bag, x) == bag (+) SetToBag({x})

Take(bag, x) == bag (-) SetToBag({x})

RECURSIVE Without(_, _)
Without(s, x) ==
  IF s = <<>> THEN <<>>
  ELSE IF Head(s) = x THEN Without(Tail(s), x)
  ELSE <<Head(s)>> \o Without(Tail(s), x)

Min(a, b) == IF a <= b THEN a ELSE b

\* ------------------------------------------------- numbers shown as text

Digit(n) == <<"0", "1", "2", "3", "4", "5", "6", "7", "8", "9">>[n + 1]

RECURSIVE NatToString(_)
NatToString(n) ==
  IF n < 10 THEN <<Digit(n)>> ELSE NatToString(n \div 10) \o <<Digit(n % 10)>>

\* `${spotsLeft}`: Number::toString of an integer.
NumberToString(n) == IF n < 0 THEN <<"-">> \o NatToString(-n) ELSE NatToString(n)

DigitValue(c) == CHOOSE n \in 0..9 : Digit(n) = c

RECURSIVE ParseNat(_, _)
ParseNat(s, acc) ==
  IF s = <<>> THEN acc ELSE ParseNat(Tail(s), 10 * acc + DigitValue(Head(s)))

\* The integer a decimal text denotes (the reading of a displayed number).
ParseInt(s) == IF Head(s) = "-" THEN -ParseNat(Tail(s), 0) ELSE ParseNat(s, 0)

\* ---------------------------------------------------------------- variables

VARIABLES
  server,          \* the server's rosters: activity name -> participants
  activitiesList,  \* #activities-list: [kind, cards]
  activitySelect,  \* the activity options appended to #activity, in order
  signupForm,      \* the form's fields: [email, activity]
  messageDiv,      \* #message: [textContent, classes]
  timers,          \* pending hide timers: ms left, in creation order
  pending,         \* signup / unregister calls suspended at their await
  fetches,         \* fetchActivities calls suspended at their await
  nOps,            \* signup and unregister calls started
  nDone,           \* signup and unregister calls that ran to their end
  nGet,            \* GET /activities requests issued
  nShown,          \* showMessage calls
  msgAge,          \* ms since the last showMessage call (-1: none yet)
  hiddenEarly,     \* the message shown last was hidden before it was HideDelay old
  lastFetch,       \* the fetchActivities call that wrote the list surface last
  unhandled,       \* exceptions that left a handler uncaught (unhandled rejections)
  lastCall,        \* the arguments of the most recent showMessage call
  wire             \* a request URL on its way from the client to the server

vars == <<server, activitiesList, activitySelect, signupForm, messageDiv,
          timers, pending, fetches, nOps, nDone, nGet, nShown, msgAge,
          hiddenEarly, lastFetch, unhandled, lastCall, wire>>


\* ------------------------------------------------- the server (environment)

NoResult == [kind |-> "none", message |-> <<>>, hasDetail |-> FALSE, detail |-> <<>>]

\* The message of a 2xx answer: a text of the server's.
SuccessMessage(kind) ==
  IF kind = "signup" THEN <<"Signed up for the activity">>
  ELSE <<"Unregistered from the activity">>

\* The detail texts of non-2xx answers; <<>> is the empty string.
DetailTexts == {<<>>, <<"Student is already signed up">>}

\* The JSON bodies of non-2xx answers: with a detail string, or without the field.
ErrorBodies ==
  {[kind |-> "error", message |-> <<>>, hasDetail |-> TRUE, detail |-> d] : d \in DetailTexts}
    \cup {[kind |-> "error", message |-> <<>>, hasDetail |-> FALSE, detail |-> <<>>]}

\* Whether the server accepts the mutation: no double signup, no removal of an absent one.
Applicable(p) ==
  IF p.kind = "signup" THEN p.email \notin Range(server[p.activity])
  ELSE p.email \in Range(server[p.activity])

Apply(p) ==
  IF p.kind = "signup"
  THEN [server EXCEPT ![p.activity] = Append(@, p.email)]
  ELSE [server EXCEPT ![p.activity] = Without(@, p.email)]

\* The body of GET /activities; entry `bad` (0: none) lacks its participants field.
ActivitiesBody(bad) ==
  [i \in DOMAIN ActivityOrder |->
    [name |-> ActivityOrder[i],
     description |-> Description(ActivityOrder[i]),
     schedule |-> Schedule(ActivityOrder[i]),
     max_participants |-> MaxParticipants(ActivityOrder[i]),
     hasParticipants |-> i # bad,
     participants |-> IF i = bad THEN <<>> ELSE server[ActivityOrder[i]]]]

\* --------------------------------------------------------------- rendering

\* ParticipantsList with the loop ending one participant early.
ParticipantsListDropsLast(name, participants) ==
  [i \in 1..(Len(participants) - 1) |->
    [email |-> participants[i], deleteBtn |-> <<name, participants[i]>>]]

\* Lines 32-48: one row per participant, each with its delete button.
ParticipantsList(name, participants) ==
  [i \in DOMAIN participants |->
    [email |-> participants[i], deleteBtn |-> <<name, participants[i]>>]]

\* ParticipantsDiv that renders the list whenever participants is there, empty or not.
ParticipantsDivAlwaysList(name, details) ==
  [kind |-> "list", rows |-> ParticipantsList(name, details.participants)]

\* Lines 24-55: the roster, or the placeholder when nobody signed up.
ParticipantsDiv(name, details) ==
  IF Len(details.participants) > 0
  THEN [kind |-> "list", rows |-> ParticipantsList(name, details.participants)]
  ELSE [kind |-> "placeholder", rows |-> <<>>]

\* SpotsLeft that never shows less than zero.
SpotsLeftClamped(details) ==
  IF details.max_participants < Len(details.participants) THEN 0
  ELSE details.max_participants - Len(details.participants)

\* Line 21.
SpotsLeft(details) == details.max_participants - Len(details.participants)

\* Lines 18-63: the card of one activity.
ActivityCard(name, details) ==
  [name |-> name,
   description |-> details.description,
   schedule |-> details.schedule,
   availability |-> NumberToString(SpotsLeft(details)),
   participantsDiv |-> ParticipantsDiv(name, details)]

\* ClearedList with the clearing left out: the earlier cards stay.
StaleList == activitiesList.cards

\* Line 14: activitiesList.innerHTML = "".
ClearedList == <<>>

\* Lines 17-72: the forEach over the response's entries, from entry i on.  An
\* entry without participants throws at line 21 and ends the loop there, with
\* the cards and options appended so far left in place.
RECURSIVE RenderEntries(_, _, _, _)
RenderEntries(entries, i, cards, options) ==
  IF i > Len(entries) THEN [threw |-> FALSE, cards |-> cards, options |-> options]
  ELSE IF ~entries[i].hasParticipants
       THEN [threw |-> TRUE, cards |-> cards, options |-> options]
       ELSE RenderEntries(entries, i + 1,
                          Append(cards, ActivityCard(entries[i].name, entries[i])),
                          Append(options, entries[i].name))

\* FailureList that adds the failure message to what is shown instead of replacing it.
FailureListKeepsCards == [kind |-> "failure", cards |-> activitiesList.cards]

\* Line 74: the catch of fetchActivities replaces the whole list surface.
FailureList == [kind |-> "failure", cards |-> <<>>]

\* Where fetchActivities throws on this response: at await fetch (line 10), at
\* await response.json() (line 11), inside the forEach (line 21), or nowhere.
FetchThrows(resp) ==
  IF resp.kind = "netfail" THEN "fetch"
  ELSE IF resp.kind = "badjson" THEN "json"
  ELSE IF RenderEntries(resp.body, 1, <<>>, <<>>).threw THEN "render"
  ELSE "none"

\* fetchActivitiesTry with the rendering loop outside the try block.
fetchActivitiesTryNarrow == {"fetch", "json"}

\* Lines 9-73: the throw sites inside the try block of fetchActivities.
fetchActivitiesTry == {"fetch", "json", "render"}

\* A throw at `site` of a function whose try block holds the sites `try`
\* leaves the function (1) or is caught (0).  Nothing awaits or catches the
\* promise of a handler, so what leaves it is an unhandled rejection.
Escapes(site, try) == IF site # "none" /\ site \notin try THEN 1 ELSE 0

\* Lines 11-76 after the response arrived: the list surface and the options.
Rendered(resp) ==
  IF resp.kind # "ok" THEN [list |-> FailureList, options |-> activitySelect]
  ELSE LET r == RenderEntries(resp.body, 1, ClearedList, activitySelect)
       IN  IF r.threw THEN [list |-> FailureList, options |-> r.options]
           ELSE [list |-> [kind |-> "cards", cards |-> r.cards], options |-> r.options]

\* The delete buttons on the page, each bound to its <<name, participant>>.
DeleteButtons ==
  UNION {{row.deleteBtn : row \in Range(card.participantsDiv.rows)} :
           card \in Range(activitiesList.cards)}

\* ------------------------------------------------------------ showMessage

\* showMessage that adds the type to the classes instead of assigning className.
showMessageAddsClass(text, type) ==
  /\ messageDiv' = [textContent |-> text, classes |-> messageDiv.classes \cup {type}]
  /\ timers' = Append(timers, HideDelay)
  /\ nShown' = nShown + 1
  /\ msgAge' = 0
  /\ hiddenEarly' = FALSE
  /\ lastCall' = [text |-> text, type |-> type]

\* showMessage that schedules no hide timer.
showMessageNoTimer(text, type) ==
  /\ messageDiv' = [textContent |-> text, classes |-> {type} \ {"hidden"}]
  /\ timers' = timers
  /\ nShown' = nShown + 1
  /\ msgAge' = 0
  /\ hiddenEarly' = FALSE
  /\ lastCall' = [text |-> text, type |-> type]

\* Lines 105-114.  className = type drops every earlier class, "hidden" too.
showMessage(text, type) ==
  /\ messageDiv' = [textContent |-> text, classes |-> {type} \ {"hidden"}]
  /\ timers' = Append(timers, HideDelay)
  /\ nShown' = nShown + 1
  /\ msgAge' = 0
  /\ hiddenEarly' = FALSE
  /\ lastCall' = [text |-> text, type |-> type]

\* Lines 111-113: the callback of the oldest hide timer runs.
hideMessage ==
  /\ timers' = Tail(timers)
  /\ messageDiv' = [messageDiv EXCEPT !.classes = @ \cup {"hidden"}]
  /\ hiddenEarly' = IF "hidden" \in messageDiv.classes THEN hiddenEarly
                    ELSE msgAge < HideDelay
  /\ UNCHANGED <<server, activitiesList, activitySelect, signupForm, pending,
                 fetches, nOps, nDone, nGet, nShown, msgAge, lastFetch, unhandled, lastCall, wire>>

\* Under the simulated clock a hide timer fires when it is due, the oldest first.
HideTimerFires ==
  /\ timers # <<>>
  /\ Head(timers) = 0
  /\ hideMessage

\* Without a clock: a hide timer fires at some time after its showMessage call,
\* the oldest first (all timers have the same delay).
HideTimerFiresLater ==
  /\ timers # <<>>
  /\ hideMessage

\* msgAge stops counting here: the timer of the message is due by then.
AgeCap == HideDelay

\* The clock advances, by TickMs or up to the next timer that is due.
Tick ==
  /\ IF timers = <<>> THEN TRUE ELSE Head(timers) > 0
  /\ LET d == IF timers = <<>> THEN TickMs ELSE Min(TickMs, Head(timers))
     IN  /\ timers' = [i \in DOMAIN timers |-> timers[i] - d]
         /\ msgAge' = IF msgAge = -1 THEN -1 ELSE Min(msgAge + d, AgeCap)
  /\ UNCHANGED <<server, activitiesList, activitySelect, signupForm, messageDiv,
                 pending, fetches, nOps, nDone, nGet, nShown, hiddenEarly, lastFetch, unhandled, lastCall, wire>>

\* --------------------------------------------------------- fetchActivities

NoBody == [kind |-> "none", body |-> <<>>]

\* Lines 8-10: the call up to its first await; GET /activities is on its way.
fetchActivities(kind, activity, email, void) ==
  /\ fetches' = Put(fetches, [kind |-> kind, activity |-> activity, email |-> email,
                              void |-> void, behind |-> FALSE,
                              state |-> "sent", resp |-> NoBody])
  /\ nGet' = nGet + 1

\* The server answers a GET with its rosters as they are now.
ServerAnswersGet(f, bad) ==
  /\ f.state = "sent"
  /\ fetches' = Put(Take(fetches, f),
                    [f EXCEPT !.state = "answered",
                              !.resp = [kind |-> "ok", body |-> ActivitiesBody(bad)]])
  /\ UNCHANGED <<server, activitiesList, activitySelect, signupForm, messageDiv,
                 timers, pending, nOps, nDone, nGet, nShown, msgAge, hiddenEarly, lastFetch, unhandled, lastCall, wire>>

\* The GET fails: no response ("netfail"), or a body that is no JSON ("badjson").
GetFails(f, how) ==
  /\ f.state = "sent"
  /\ fetches' = Put(Take(fetches, f),
                    [f EXCEPT !.state = "answered", !.resp = [kind |-> how, body |-> <<>>]])
  /\ UNCHANGED <<server, activitiesList, activitySelect, signupForm, messageDiv,
                 timers, pending, nOps, nDone, nGet, nShown, msgAge, hiddenEarly, lastFetch, unhandled, lastCall, wire>>

\* Lines 10-76: the call resumes with its response and renders, or catches.
FetchResumes(f) ==
  /\ f.state = "answered"
  /\ LET r == Rendered(f.resp)
     IN  /\ activitiesList' = r.list
         /\ activitySelect' = r.options
  /\ lastFetch' = [f EXCEPT !.state = "done", !.resp.kind = "done"]
  /\ fetches' = Take(fetches, f)
  /\ unhandled' = unhandled + Escapes(FetchThrows(f.resp), fetchActivitiesTry)
  /\ UNCHANGED <<server, signupForm, messageDiv, timers, pending, nOps, nDone,
                 nGet, nShown, msgAge, hiddenEarly, lastCall, wire>>

\* ----------------------------------------------------------- request URLs

\* A string is the sequence of its characters.  The fixed words of a URL
\* ("activities", "signup", "unregister", "email") are one element each: no
\* delimiter occurs inside them.

\* The longest pair of values: the characters of activity name and email together.
MaxLen == 3

\* The characters the values are made of.
Reserved == {"/", "?", "&", "=", "#", "%", " ", "+", "@"}

Alphabet == Reserved \cup {"a"}

\* The UTF-8 octet of a character, as its two hexadecimal digits.
HexOf(c) ==
  CASE c = " " -> <<"2", "0">>
    [] c = "#" -> <<"2", "3">>
    [] c = "%" -> <<"2", "5">>
    [] c = "&" -> <<"2", "6">>
    [] c = "+" -> <<"2", "B">>
    [] c = "/" -> <<"2", "F">>
    [] c = "=" -> <<"3", "D">>
    [] c = "?" -> <<"3", "F">>
    [] c = "@" -> <<"4", "0">>
    [] c = "a" -> <<"6", "1">>

\* ECMAScript uriUnescaped, as far as the alphabet and the digits go: letters,
\* decimal digits and the marks - _ . ! ~ * ' ( ).
uriUnescaped ==
  {"a", "A", "B", "D", "F", "0", "1", "2", "3", "4", "5", "6",
   "-", "_", ".", "!", "~", "*", "'", "(", ")"}

RECURSIVE Encode(_, _)
\* ECMAScript Encode(string, unescapedSet).
Encode(string, unescapedSet) ==
  IF string = <<>> THEN <<>>
  ELSE (IF Head(string) \in unescapedSet THEN <<Head(string)>>
        ELSE <<"%">> \o HexOf(Head(string)))
       \o Encode(Tail(string), unescapedSet)

\* encodeURI in the place of encodeURIComponent: it keeps the reserved characters.
encodeURI(uriComponent) ==
  Encode(uriComponent,
         uriUnescaped \cup {";", "/", "?", ":", "@", "&", "=", "+", "$", ",", "#"})

\* Lines 83 and 125: encodeURIComponent.
encodeURIComponent(uriComponent) == Encode(uriComponent, uriUnescaped)

\* Line 125: the URL of the signup request.
SignupUrl(activity, email) ==
  <<"/", "activities", "/">> \o encodeURIComponent(activity)
    \o <<"/", "signup", "?", "email", "=">> \o encodeURIComponent(email)

\* Line 83: the URL of the unregister request.
UnregisterUrl(activityName, email) ==
  <<"/", "activities", "/">> \o encodeURIComponent(activityName)
    \o <<"/", "unregister", "?", "email", "=">> \o encodeURIComponent(email)

\* The first position of c in s, 0 when there is none.
IndexOf(s, c) ==
  IF c \in Range(s) THEN CHOOSE i \in DOMAIN s : s[i] = c /\ \A j \in 1..(i - 1) : s[j] # c
  ELSE 0

\* s up to its first c, and s after it.
Before(s, c) == IF IndexOf(s, c) = 0 THEN s ELSE SubSeq(s, 1, IndexOf(s, c) - 1)

After(s, c) == IF IndexOf(s, c) = 0 THEN <<>> ELSE SubSeq(s, IndexOf(s, c) + 1, Len(s))

RECURSIVE Split(_, _)
\* The pieces of s between the occurrences of c.
Split(s, c) ==
  IF IndexOf(s, c) = 0 THEN <<s>> ELSE <<Before(s, c)>> \o Split(After(s, c), c)

\* Lines 82 and 124, fetch: the request target is the URL without its fragment.
RequestTarget(url) == Before(url, "#")

RECURSIVE PercentDecode(_)
\* Percent-decoding: "%" and two hexadecimal digits give the character of that octet.
PercentDecode(s) ==
  IF s = <<>> THEN <<>>
  ELSE IF Head(s) = "%" /\ Len(s) >= 3 /\ \E c \in Alphabet : HexOf(c) = <<s[2], s[3]>>
       THEN <<CHOOSE c \in Alphabet : HexOf(c) = <<s[2], s[3]>> >>
            \o PercentDecode(SubSeq(s, 4, Len(s)))
       ELSE <<Head(s)>> \o PercentDecode(Tail(s))

\* Decoding of a query string component: "+" is a space, then percent-decoding.
FormDecode(s) == PercentDecode([i \in DOMAIN s |-> IF s[i] = "+" THEN " " ELSE s[i]])

\* The value of the first parameter of the query string named key.
QueryParam(query, key) ==
  LET pairs == Split(query, "&")
      named == {i \in DOMAIN pairs : FormDecode(Before(pairs[i], "=")) = <<key>>}
  IN  IF named = {} THEN [found |-> FALSE, value |-> <<>>]
      ELSE [found |-> TRUE,
            value |-> FormDecode(After(pairs[CHOOSE i \in named : \A j \in named : i <= j], "="))]

\* Nothing routed yet.
NoRoute ==
  [segments |-> 0, operation |-> <<>>, activity_name |-> <<>>,
   email |-> [found |-> FALSE, value |-> <<>>]]

\* The server takes the request target apart: /activities/{activity_name}/<operation>?email=...
Route(target) ==
  LET segs == Split(Before(target, "?"), "/")
  IN  [segments |-> Len(segs),
       operation |-> IF Len(segs) >= 4 THEN segs[4] ELSE <<>>,
       activity_name |-> IF Len(segs) >= 3 THEN PercentDecode(segs[3]) ELSE <<>>,
       email |-> QueryParam(After(target, "?"), "email")]

\* ------------------------------------------------- the mutating requests

\* A call whose request is on its way.
Call(kind, activity, email) ==
  [kind |-> kind, activity |-> activity, email |-> email, void |-> FALSE,
   state |-> "sent", resp |-> NoResult]

Opposite(kind) == IF kind = "signup" THEN "unregister" ELSE "signup"

\* The server applied p: the calls and fetches that wait for the opposite change
\* of the same (activity, email) no longer have it to themselves.
Undoes(p, q) == q.kind = Opposite(p.kind) /\ q.activity = p.activity /\ q.email = p.email

VoidCalls(p, calls) ==
  LET Void(q) == IF Undoes(p, q) /\ q.state = "answered" /\ q.resp.kind = "ok"
                 THEN [q EXCEPT !.void = TRUE] ELSE q
  IN  BagOfAll(Void, calls)

VoidFetches(p) ==
  LET Void(q) == IF Undoes(p, q) /\ q.state = "sent"
                 THEN [q EXCEPT !.void = TRUE] ELSE q
  IN  BagOfAll(Void, fetches)

\* The server applied a change: the response of a GET it answered before is
\* behind its rosters from now on.
Outdated(q) == IF q.state = "sent" THEN q ELSE [q EXCEPT !.behind = TRUE]

\* The server applies the change and answers 2xx with {message}.
ServerAccepts(p) ==
  /\ p.state = "sent"
  /\ Applicable(p)
  /\ server' = Apply(p)
  /\ pending' = Put(VoidCalls(p, Take(pending, p)),
                    [p EXCEPT !.state = "answered",
                              !.resp = [kind |-> "ok", message |-> SuccessMessage(p.kind),
                                        hasDetail |-> FALSE, detail |-> <<>>]])
  /\ fetches' = BagOfAll(Outdated, VoidFetches(p))
  /\ lastFetch' = Outdated(lastFetch)
  /\ UNCHANGED <<activitiesList, activitySelect, signupForm, messageDiv, timers,
                 nOps, nDone, nGet, nShown, msgAge, hiddenEarly, unhandled, lastCall, wire>>

\* The server answers non-2xx with a JSON body and changes nothing.
ServerRejects(p, body) ==
  /\ p.state = "sent"
  /\ pending' = Put(Take(pending, p), [p EXCEPT !.state = "answered", !.resp = body])
  /\ UNCHANGED <<server, activitiesList, activitySelect, signupForm, messageDiv, timers,
                 fetches, nOps, nDone, nGet, nShown, msgAge, hiddenEarly, lastFetch, unhandled, lastCall, wire>>

\* No usable response: the request is lost, or the body is no JSON.
RequestFails(p, how) ==
  /\ p.state = "sent"
  /\ pending' = Put(Take(pending, p),
                    [p EXCEPT !.state = "answered", !.resp = [NoResult EXCEPT !.kind = how]])
  /\ UNCHANGED <<server, activitiesList, activitySelect, signupForm, messageDiv, timers,
                 fetches, nOps, nDone, nGet, nShown, msgAge, hiddenEarly, lastFetch, unhandled, lastCall, wire>>

\* The server applies the change and its response is lost on the way back.
ResponseLost(p) ==
  /\ p.state = "sent"
  /\ Applicable(p)
  /\ server' = Apply(p)
  /\ pending' = Put(VoidCalls(p, Take(pending, p)),
                    [p EXCEPT !.state = "answered",
                              !.resp = [NoResult EXCEPT !.kind = "netfail"]])
  /\ fetches' = BagOfAll(Outdated, VoidFetches(p))
  /\ lastFetch' = Outdated(lastFetch)
  /\ UNCHANGED <<activitiesList, activitySelect, signupForm, messageDiv, timers,
                 nOps, nDone, nGet, nShown, msgAge, hiddenEarly, unhandled, lastCall, wire>>

\* ------------------------------------------------------------- the handlers

\* Line 135: signupForm.reset().
FormReset == [email |-> "", activity |-> ""]

\* Lines 117-129: the user types an email, picks one of the listed activities
\* and submits; the handler reads both fields and runs up to its await.
SubmitSignup(email, activity) ==
  /\ nOps < MaxOps
  /\ activity \in Range(activitySelect)
  /\ signupForm' = [email |-> email, activity |-> activity]
  /\ pending' = Put(pending, Call("signup", activity, email))
  /\ nOps' = nOps + 1
  /\ UNCHANGED <<server, activitiesList, activitySelect, messageDiv, timers,
                 fetches, nDone, nGet, nShown, msgAge, hiddenEarly, lastFetch, unhandled, lastCall, wire>>

\* Lines 42-44 and 80-87: a delete button is clicked; unregisterParticipant
\* runs up to its await.
ClickDelete(activityName, email) ==
  /\ nOps < MaxOps
  /\ <<activityName, email>> \in DeleteButtons
  /\ pending' = Put(pending, Call("unregister", activityName, email))
  /\ nOps' = nOps + 1
  /\ UNCHANGED <<server, activitiesList, activitySelect, signupForm, messageDiv, timers,
                 fetches, nDone, nGet, nShown, msgAge, hiddenEarly, lastFetch, unhandled, lastCall, wire>>

\* ErrorText that ignores the server's detail.
ErrorTextFallbackOnly(result) == <<"An error occurred">>

\* Lines 96 and 139: result.detail || "An error occurred".
ErrorText(result) ==
  IF result.hasDetail /\ result.detail # <<>> THEN result.detail
  ELSE <<"An error occurred">>

\* SignupOk without the form reset.
SignupOkNoReset(p) ==
  /\ showMessage(p.resp.message, "success")
  /\ UNCHANGED signupForm
  /\ fetchActivities(p.kind, p.activity, p.email, p.void)

\* SignupOk that leaves the list as it is.
SignupOkNoRefetch(p) ==
  /\ showMessage(p.resp.message, "success")
  /\ signupForm' = FormReset
  /\ UNCHANGED <<fetches, nGet>>

\* Lines 133-137: the 2xx branch of the submit handler.
SignupOk(p) ==
  /\ showMessage(p.resp.message, "success")
  /\ signupForm' = FormReset
  /\ fetchActivities(p.kind, p.activity, p.email, p.void)

\* Lines 138-140: the non-2xx branch of the submit handler.
SignupError(p) ==
  /\ showMessage(ErrorText(p.resp), "error")
  /\ UNCHANGED <<signupForm, fetches, nGet>>

\* Lines 141-144: the catch of the submit handler.
SignupCatch(p) ==
  /\ showMessage(<<"Failed to sign up. Please try again.">>, "error")
  /\ UNCHANGED <<signupForm, fetches, nGet>>

\* Lines 91-94: the 2xx branch of unregisterParticipant.
UnregisterOk(p) ==
  /\ fetchActivities(p.kind, p.activity, p.email, p.void)
  /\ showMessage(p.resp.message, "success")
  /\ UNCHANGED signupForm

\* UnregisterError that refreshes the list as the 2xx branch does.
UnregisterErrorRefetches(p) ==
  /\ fetchActivities(p.kind, p.activity, p.email, p.void)
  /\ showMessage(ErrorText(p.resp), "error")
  /\ UNCHANGED signupForm

\* UnregisterError that shows the detail as a success message.
UnregisterErrorAsSuccess(p) ==
  /\ showMessage(ErrorText(p.resp), "success")
  /\ UNCHANGED <<signupForm, fetches, nGet>>

\* Lines 95-97: the non-2xx branch of unregisterParticipant.
UnregisterError(p) ==
  /\ showMessage(ErrorText(p.resp), "error")
  /\ UNCHANGED <<signupForm, fetches, nGet>>

\* UnregisterCatch that only logs.
UnregisterCatchSilent(p) ==
  UNCHANGED <<messageDiv, timers, nShown, msgAge, hiddenEarly, lastCall, signupForm, fetches, nGet>>

\* Lines 98-101: the catch of unregisterParticipant.
UnregisterCatch(p) ==
  /\ showMessage(<<"Failed to unregister. Please try again.">>, "error")
  /\ UNCHANGED <<signupForm, fetches, nGet>>

\* Where a handler throws on this response: at await fetch (lines 82, 124), at
\* await response.json() (lines 89, 131), or nowhere.
CallThrows(resp) ==
  IF resp.kind = "netfail" THEN "fetch"
  ELSE IF resp.kind = "badjson" THEN "json"
  ELSE "none"

\* Lines 123-141: the throw sites inside the try block of the submit handler.
signupTry == {"fetch", "json"}

\* Lines 81-98: the throw sites inside the try block of unregisterParticipant.
unregisterTry == {"fetch", "json"}

\* Lines 131-145: the submit handler resumes with its response.
SignupResumes(p) ==
  /\ p.kind = "signup"
  /\ p.state = "answered"
  /\ IF p.resp.kind = "ok" THEN SignupOk(p)
     ELSE IF p.resp.kind = "error" THEN SignupError(p)
     ELSE SignupCatch(p)
  /\ pending' = Take(pending, p)
  /\ nDone' = nDone + 1
  /\ unhandled' = unhandled + Escapes(CallThrows(p.resp), signupTry)
  /\ UNCHANGED <<server, activitiesList, activitySelect, nOps, lastFetch, wire>>

\* Lines 89-102: unregisterParticipant resumes with its response.
UnregisterResumes(p) ==
  /\ p.kind = "unregister"
  /\ p.state = "answered"
  /\ IF p.resp.kind = "ok" THEN UnregisterOk(p)
     ELSE IF p.resp.kind = "error" THEN UnregisterError(p)
     ELSE UnregisterCatch(p)
  /\ pending' = Take(pending, p)
  /\ nDone' = nDone + 1
  /\ unhandled' = unhandled + Escapes(CallThrows(p.resp), unregisterTry)
  /\ UNCHANGED <<server, activitiesList, activitySelect, nOps, lastFetch, wire>>

\* ------------------------------------------------------- the specification

\* Lines 1-5 and 150-151: the page as loaded, the first fetchActivities() under way.
ClientInit ==
  /\ server = [name \in ActivityNames |-> InitialParticipants(name)]
  /\ activitiesList = [kind |-> "initial", cards |-> <<>>]
  /\ activitySelect = <<>>
  /\ signupForm = FormReset
  /\ messageDiv = [textContent |-> <<>>, classes |-> {"hidden"}]
  /\ timers = <<>>
  /\ pending = EmptyBag
  /\ fetches = SetToBag({[kind |-> "load", activity |-> "", email |-> "", void |-> FALSE,
                          behind |-> FALSE, state |-> "sent", resp |-> NoBody]})
  /\ nOps = 0
  /\ nDone = 0
  /\ nGet = 1
  /\ nShown = 0
  /\ msgAge = -1
  /\ hiddenEarly = FALSE
  /\ lastFetch = [kind |-> "none", activity |-> "", email |-> "", void |-> FALSE,
                  behind |-> FALSE, state |-> "done", resp |-> [NoBody EXCEPT !.kind = "done"]]
  /\ unhandled = 0
  /\ lastCall = [text |-> <<>>, type |-> "none"]

\* No request URL is under study while the client runs.
NoWire ==
  [phase |-> "none", method |-> "", activity |-> <<>>, email |-> <<>>,
   url |-> <<>>, got |-> NoRoute]

Init == ClientInit /\ wire = NoWire

\* The steps of the client, the server and the network.
Step ==
  \/ \E e \in Emails, a \in ActivityNames : SubmitSignup(e, a)
  \/ \E a \in ActivityNames, e \in Emails : ClickDelete(a, e)
  \/ \E p \in BagToSet(pending) : ServerAccepts(p)
  \/ \E p \in BagToSet(pending), body \in ErrorBodies : ServerRejects(p, body)
  \/ \E p \in BagToSet(pending), how \in {"netfail", "badjson"} : RequestFails(p, how)
  \/ \E p \in BagToSet(pending) : ResponseLost(p)
  \/ \E p \in BagToSet(pending) : SignupResumes(p)
  \/ \E p \in BagToSet(pending) : UnregisterResumes(p)
  \/ \E f \in BagToSet(fetches), bad \in {0, Len(ActivityOrder)} : ServerAnswersGet(f, bad)
  \/ \E f \in BagToSet(fetches), how \in {"netfail", "badjson"} : GetFails(f, how)
  \/ \E f \in BagToSet(fetches) : FetchResumes(f)

\* The client with its timers firing at any later time: every order of the
\* handlers and the timer callbacks that some timing produces.
Next == Step \/ HideTimerFiresLater

Spec == Init /\ [][Next]_vars

\* The client under the simulated clock: timers fire exactly when due.
NextClock == Step \/ HideTimerFires \/ Tick

SpecClock == Init /\ [][NextClock]_vars

\* ------------------------------------------------- the request URLs alone

\* The pairs of activity name and email of at most MaxLen characters together.
UrlInputs ==
  UNION {{<<n, e>> : n \in [1..j -> Alphabet], e \in [1..i -> Alphabet]} :
         <<j, i>> \in {ji \in (0..MaxLen) \X (0..MaxLen) : ji[1] + ji[2] <= MaxLen}}

UrlInit ==
  /\ ClientInit
  /\ wire \in {[NoWire EXCEPT !.phase = "input", !.activity = ne[1], !.email = ne[2]] :
                ne \in UrlInputs}

clientVars ==
  <<server, activitiesList, activitySelect, signupForm, messageDiv, timers, pending,
    fetches, nOps, nDone, nGet, nShown, msgAge, hiddenEarly, lastFetch, unhandled, lastCall>>

\* Lines 124-129: the submit handler builds its URL and sends the request.
SendSignup ==
  /\ wire.phase = "input"
  /\ wire' = [wire EXCEPT !.phase = "sent", !.method = "POST",
                          !.url = SignupUrl(wire.activity, wire.email)]
  /\ UNCHANGED clientVars

\* Lines 82-87: unregisterParticipant builds its URL and sends the request.
SendUnregister ==
  /\ wire.phase = "input"
  /\ wire' = [wire EXCEPT !.phase = "sent", !.method = "DELETE",
                          !.url = UnregisterUrl(wire.activity, wire.email)]
  /\ UNCHANGED clientVars

\* The server receives the request target and decodes its parameters.
ServerRoutes ==
  /\ wire.phase = "sent"
  /\ wire' = [wire EXCEPT !.phase = "routed", !.got = Route(RequestTarget(wire.url))]
  /\ UNCHANGED clientVars

NextUrl == SendSignup \/ SendUnregister \/ ServerRoutes

SpecUrl == UrlInit /\ [][NextUrl]_vars

\* ------------------------------------------------ the message surface alone

\* The longest sequence of showMessage calls.
MaxCalls == 3

\* The texts the handlers call showMessage with (lines 92, 96, 99, 134, 139, 142).
MessageTexts ==
  {SuccessMessage("signup"), SuccessMessage("unregister"), <<"An error occurred">>,
   <<"Failed to sign up. Please try again.">>, <<"Failed to unregister. Please try again.">>}

\* Lines 105-114: some handler calls showMessage, at any time.
ShowMessageCalled(text, type) ==
  /\ nShown < MaxCalls
  /\ showMessage(text, type)
  /\ UNCHANGED <<server, activitiesList, activitySelect, signupForm, pending, fetches,
                 nOps, nDone, nGet, lastFetch, unhandled, wire>>

NextMessage ==
  \/ \E text \in MessageTexts, type \in {"success", "error"} : ShowMessageCalled(text, type)
  \/ HideTimerFires
  \/ Tick

\* Every scheduled timer fires when it is due, and time passes.
SpecMessage ==
  Init /\ [][NextMessage]_vars /\ WF_vars(HideTimerFires) /\ WF_vars(Tick)

\* =================================================================== claims

\* The emails in the rendered roster of the cards named `name`.
RosterOf(name) ==
  UNION {{row.email : row \in Range(card.participantsDiv.rows)} :
           card \in {c \in Range(activitiesList.cards) : c.name = name}}

\* The step in which the suspended call p resumes and runs to its end.
ResumeOf(p) == nDone' = nDone + 1 /\ pending' = Take(pending, p)

\* The step in which the suspended fetchActivities call f resumes.
FetchResumeOf(f) == f.state = "answered" /\ fetches' = Take(fetches, f)

\* C1: when the list shows the cards rendered by the re-fetch of a successful
\* signup of (activity, email), and the server has applied no unregistration of
\* that pair between the signup and the GET, email is in the rendered roster of
\* activity.
C1_SignupRendered ==
  (activitiesList.kind = "cards" /\ lastFetch.kind = "signup" /\ ~lastFetch.void)
    => lastFetch.email \in RosterOf(lastFetch.activity)

C1_Witness ==
  /\ activitiesList.kind = "cards"
  /\ lastFetch.kind = "signup"
  /\ ~lastFetch.void
  /\ lastFetch.email \in RosterOf(lastFetch.activity)

\* C2: when the list shows the cards rendered by the re-fetch of a successful
\* unregistration of (activity, email), and the server has applied no signup of
\* that pair between the removal and the GET, email is not in the rendered
\* roster of activity.
C2_UnregisterRendered ==
  (activitiesList.kind = "cards" /\ lastFetch.kind = "unregister" /\ ~lastFetch.void)
    => lastFetch.email \notin RosterOf(lastFetch.activity)

C2_Witness ==
  /\ activitiesList.kind = "cards"
  /\ lastFetch.kind = "unregister"
  /\ ~lastFetch.void
  /\ lastFetch.email \notin RosterOf(lastFetch.activity)

\* C3 as stated: a signup or unregister call that resumes with a non-2xx answer
\* shows the detail string of the body, whatever string it is, and the fallback
\* text when the body has no detail; the kind is error.
C3_AnyDetailVerbatim ==
  [][\A p \in BagToSet(pending) :
       (p.state = "answered" /\ p.resp.kind = "error" /\ ResumeOf(p))
         => /\ messageDiv'.classes = {"error"}
            /\ messageDiv'.textContent =
                 IF p.resp.hasDetail THEN p.resp.detail ELSE <<"An error occurred">>]_vars

\* C3 amended: the detail string is shown verbatim when it is not empty; a
\* missing or empty detail shows the fallback text; the kind is error.
C3_NonEmptyDetailVerbatim ==
  [][\A p \in BagToSet(pending) :
       (p.state = "answered" /\ p.resp.kind = "error" /\ ResumeOf(p))
         => /\ messageDiv'.classes = {"error"}
            /\ messageDiv'.textContent =
                 IF p.resp.hasDetail /\ p.resp.detail # <<>> THEN p.resp.detail
                 ELSE <<"An error occurred">>]_vars

C3_Witness ==
  /\ messageDiv.classes = {"error"}
  /\ messageDiv.textContent \in DetailTexts \ {<<>>}

\* C4: once a message has been on the surface for HideDelay ms without another
\* showMessage call, and every timer due by then has fired, the surface is
\* hidden and was not hidden at any earlier moment of those HideDelay ms.
C4_HiddenAfterExactlyHideDelay ==
  (msgAge >= HideDelay /\ (timers = <<>> \/ Head(timers) > 0))
    => ("hidden" \in messageDiv.classes /\ ~hiddenEarly)

\* C5: the number shown on each card of a rendered response is max_participants
\* minus the number of participants of that entry, below zero included.
C5_SpotsLeftShown ==
  activitiesList.kind = "cards"
    => \A i \in DOMAIN lastFetch.resp.body :
         /\ i \in DOMAIN activitiesList.cards
         /\ activitiesList.cards[i].name = lastFetch.resp.body[i].name
         /\ ParseInt(activitiesList.cards[i].availability)
              = lastFetch.resp.body[i].max_participants
                  - Len(lastFetch.resp.body[i].participants)

C5_Witness ==
  /\ activitiesList.kind = "cards"
  /\ \E i \in DOMAIN activitiesList.cards :
       /\ ParseInt(activitiesList.cards[i].availability) < 0
       /\ Len(lastFetch.resp.body[i].participants)
            > lastFetch.resp.body[i].max_participants

\* C6: the submit handler that resumes with a 2xx answer {message: M} shows M
\* with kind success, resets the form and starts exactly one fetchActivities call.
C6_SignupSuccess ==
  [][\A p \in BagToSet(pending) :
       (p.kind = "signup" /\ p.state = "answered" /\ p.resp.kind = "ok" /\ ResumeOf(p))
         => /\ messageDiv' = [textContent |-> p.resp.message, classes |-> {"success"}]
            /\ signupForm' = [email |-> "", activity |-> ""]
            /\ nGet' = nGet + 1
            /\ BagCardinality(fetches') = BagCardinality(fetches) + 1]_vars

C6_Witness ==
  /\ messageDiv = [textContent |-> SuccessMessage("signup"), classes |-> {"success"}]
  /\ signupForm = [email |-> "", activity |-> ""]
  /\ \E f \in BagToSet(fetches) : f.kind = "signup" /\ f.state = "sent"

\* C7: a signup or unregister call that resumes with a non-2xx answer or with
\* no usable response issues no GET and leaves the list, the options and the
\* form as they were.
C7_FailureChangesOnlyMessage ==
  [][\A p \in BagToSet(pending) :
       (p.state = "answered" /\ p.resp.kind # "ok" /\ ResumeOf(p))
         => UNCHANGED <<activitiesList, activitySelect, signupForm, fetches, nGet>>]_vars

C7_Witness ==
  /\ messageDiv.textContent = <<"An error occurred">>
  /\ messageDiv.classes = {"error"}
  /\ activitiesList.kind = "cards"
  /\ signupForm # [email |-> "", activity |-> ""]

\* C8: while the list shows the cards of a rendered response, the options of the
\* selection control are the activity names of that response, each once.
C8_OptionsReplaced ==
  activitiesList.kind = "cards"
    => /\ Range(activitySelect) = {e.name : e \in Range(lastFetch.resp.body)}
       /\ Len(activitySelect) = Len(lastFetch.resp.body)

\* C9: a fetchActivities call that resumes with no response, with a body that is
\* no JSON or with an entry it cannot render leaves the failure message alone on
\* the list surface and issues no further GET.
C9_FetchFailure ==
  [][\A f \in BagToSet(fetches) :
       (FetchResumeOf(f)
          /\ (f.resp.kind # "ok" \/ \E i \in DOMAIN f.resp.body : ~f.resp.body[i].hasParticipants))
         => /\ activitiesList' = [kind |-> "failure", cards |-> <<>>]
            /\ nGet' = nGet
            /\ BagCardinality(fetches') = BagCardinality(fetches) - 1]_vars

C9_Witness ==
  /\ activitiesList = [kind |-> "failure", cards |-> <<>>]
  /\ lastFetch.kind # "load"
  /\ \E i \in DOMAIN lastFetch.resp.body :
       i > 1 /\ ~lastFetch.resp.body[i].hasParticipants

\* C10: every signup or unregister call that has run to its end has made exactly
\* one showMessage call, and no other showMessage call is made.
C10_OneMessagePerAttempt == nShown = nDone

C10_Witness ==
  /\ nDone = 2
  /\ nShown = 2
  /\ messageDiv.textContent = <<"Failed to unregister. Please try again.">>

\* The calls that have ended: every call started is suspended at its await or
\* has run to its end, and so is idle again.
CallsAccountedFor == nOps = nDone + BagCardinality(pending)

\* C11: no exception leaves a handler: whatever the requests of the initial
\* load, of a signup, of an unregistration and of the re-fetches they start
\* come to, no rejection is left unhandled, and every call that is not
\* suspended at its await has run to its end.
C11_NothingEscapes == unhandled = 0 /\ CallsAccountedFor

C11_Witness ==
  /\ unhandled = 0
  /\ lastFetch.kind \in {"signup", "unregister"}
  /\ activitiesList.kind = "failure"
  /\ FetchThrows([kind |-> "ok", body |-> lastFetch.resp.body]) = "render"
  /\ fetches = EmptyBag
  /\ pending = EmptyBag

\* The delimiters a request URL has of its own: three "/", the "?" and the "=".
OwnDelimiters(url) ==
  Cardinality({i \in DOMAIN url : url[i] \in Reserved \ {"%"}}) = 5

\* C12: for every activity name and email over the alphabet of reserved
\* characters, the URL of the signup and of the unregister request holds both
\* values percent-encoded (no reserved character of a value is left in it), and
\* decoding the path segment and the email parameter gives back the two values.
C12_UrlRoundTrip ==
  /\ wire.phase \in {"sent", "routed"} => OwnDelimiters(wire.url)
  /\ wire.phase = "routed" =>
       /\ wire.got.segments = 4
       /\ wire.got.operation = <<IF wire.method = "POST" THEN "signup" ELSE "unregister">>
       /\ wire.got.activity_name = wire.activity
       /\ wire.got.email = [found |-> TRUE, value |-> wire.email]

C12_Witness ==
  /\ wire.phase = "routed"
  /\ wire.method = "DELETE"
  /\ wire.activity = <<"/", "#">>
  /\ wire.email = <<"+">>
  /\ wire.got.activity_name = wire.activity
  /\ wire.got.email.value = wire.email

\* The emails of the rows of a rendered card, in their order.
RowEmails(card) == [j \in DOMAIN card.participantsDiv.rows |-> card.participantsDiv.rows[j].email]

\* The cards are those of the entries of one response body, in its key order.
CardsOf(body) ==
  /\ Len(activitiesList.cards) = Len(body)
  /\ \A i \in DOMAIN body :
       /\ activitiesList.cards[i].name = body[i].name
       /\ activitiesList.cards[i].description = body[i].description
       /\ activitiesList.cards[i].schedule = body[i].schedule
       /\ RowEmails(activitiesList.cards[i]) = body[i].participants

\* C13: at every state the list surface shows the initial content (no fetch has
\* completed), the failure message alone, or exactly the cards of the response
\* of the fetch that completed last, in that response's key order; so after
\* overlapping fetches the response that completed last is the one shown.
C13_RenderAtomic ==
  \/ activitiesList = [kind |-> "initial", cards |-> <<>>] /\ lastFetch.kind = "none"
  \/ activitiesList = [kind |-> "failure", cards |-> <<>>] /\ lastFetch.kind # "none"
  \/ /\ activitiesList.kind = "cards"
     /\ lastFetch.kind # "none"
     /\ CardsOf(lastFetch.resp.body)

C13_Witness ==
  /\ activitiesList.kind = "cards"
  /\ CardsOf(lastFetch.resp.body)
  /\ nGet = 3
  /\ fetches = EmptyBag
  /\ pending = EmptyBag
  /\ \E i \in DOMAIN activitiesList.cards :
       RowEmails(activitiesList.cards[i]) # server[activitiesList.cards[i].name]

\* C14: the page issues one GET /activities when it loads and one more exactly
\* when a signup or unregister call resumes with a 2xx response whose body it
\* could read; so the number of GETs issued is 1 plus the number of such calls.
C14_RefetchPerSuccess ==
  /\ nGet = 1
  /\ [][nGet' = nGet + (IF \E p \in BagToSet(pending) : ResumeOf(p) /\ p.resp.kind = "ok"
                        THEN 1 ELSE 0)]_vars

C14_Witness ==
  /\ nGet = 2
  /\ nDone = 2
  /\ fetches = EmptyBag
  /\ lastFetch.kind = "unregister"

\* C15: for every activity of the response that the list shows, the roster has
\* one row per participant, in the order of the response's participants, each
\* row with an unregister control bound to that activity name and that
\* participant's email; the placeholder stands in the place of the list exactly
\* when the participants sequence is empty.
C15_RosterRows ==
  activitiesList.kind = "cards" =>
    /\ Len(activitiesList.cards) = Len(lastFetch.resp.body)
    /\ \A i \in DOMAIN activitiesList.cards :
         LET entry == lastFetch.resp.body[i]
             div   == activitiesList.cards[i].participantsDiv
         IN  /\ Len(div.rows) = Len(entry.participants)
             /\ \A j \in DOMAIN div.rows :
                  /\ div.rows[j].email = entry.participants[j]
                  /\ div.rows[j].deleteBtn = <<entry.name, entry.participants[j]>>
             /\ div.kind = "placeholder" <=> entry.participants = <<>>
             /\ div.kind \in {"placeholder", "list"}

C15_Witness ==
  /\ activitiesList.kind = "cards"
  /\ \E i, k \in DOMAIN activitiesList.cards :
       /\ activitiesList.cards[i].participantsDiv.kind = "placeholder"
       /\ activitiesList.cards[k].participantsDiv.kind = "list"
       /\ Len(activitiesList.cards[k].participantsDiv.rows) = 2
       /\ lastFetch.resp.body[k].participants = <<"a@x.com", "b@x.com">>
       /\ activitiesList.cards[k].participantsDiv.rows[2].deleteBtn = <<"Chess Club", "b@x.com">>

\* C16: once showMessage has been called, the text of the message surface and
\* its kind (its classes other than "hidden") are always both those of the most
\* recent showMessage call, and every showMessage call leaves the surface
\* visible, whatever was shown or hidden before.
C16_SingleSlot ==
  /\ [](nShown > 0 =>
          /\ messageDiv.textContent = lastCall.text
          /\ messageDiv.classes \ {"hidden"} = {lastCall.type})
  /\ [][nShown' # nShown => "hidden" \notin messageDiv'.classes]_vars

C16_Witness ==
  /\ nShown = 2
  /\ lastCall.type = "success"
  /\ messageDiv.classes = {"success"}
  /\ messageDiv.textContent = lastCall.text
  /\ messageDiv.textContent = SuccessMessage("unregister")
  /\ Len(timers) = 2

\* The rendered rosters are the server's participant sequences as they are now.
RostersCurrent ==
  \A i \in DOMAIN activitiesList.cards :
    RowEmails(activitiesList.cards[i]) = server[activitiesList.cards[i].name]

\* No request is pending and the GET that completed last succeeded.
Settled ==
  /\ pending = EmptyBag
  /\ fetches = EmptyBag
  /\ activitiesList.kind = "cards"

\* C17 as stated: whenever no request is pending and the GET that completed last
\* succeeded, the rendered rosters are the server's current participant
\* sequences, whatever the order in which overlapping fetches completed.
C17_Resynchronized == Settled => RostersCurrent

\* C17: whenever no request is pending, the GET that completed last succeeded
\* and the server has applied no change since it answered that GET, the
\* rendered rosters are the server's current participant sequences.
C17_ResynchronizedWhenFresh == (Settled /\ ~lastFetch.behind) => RostersCurrent

C17_Witness ==
  /\ Settled
  /\ ~lastFetch.behind
  /\ nGet = 3
  /\ server["Chess Club"] = <<>>
  /\ server["Art Club"] = <<"b@x.com">>
  /\ RostersCurrent

\* C18: the message surface has kind success only with the message of a 2xx
\* response to a signup or unregister request as its text: a call that resumes
\* with a 2xx response it could read shows that response's message with kind
\* success, and a call that resumes with a non-2xx response, with no response or
\* with an unreadable one shows its message with kind error.
C18_KindMatchesOutcome ==
  /\ []("success" \in messageDiv.classes =>
          messageDiv.textContent \in {SuccessMessage("signup"), SuccessMessage("unregister")})
  /\ [][\A p \in BagToSet(pending) :
          ResumeOf(p) =>
            IF p.resp.kind = "ok"
            THEN messageDiv' = [textContent |-> p.resp.message, classes |-> {"success"}]
            ELSE messageDiv'.classes = {"error"}]_vars

C18_Witness ==
  /\ messageDiv.classes = {"error"}
  /\ nDone = 2
  /\ nGet = 2
  /\ lastFetch.kind = "signup"
  /\ pending = EmptyBag

\* C19: after any sequence of showMessage calls, with every timer firing when
\* it is due, the message surface ends up hidden for good; it is hidden once
\* HideDelay ms have passed since the last call and the timers due have fired;
\* and once hidden it stays hidden until the next showMessage call.
C19_HiddenInTheEnd ==
  /\ <>[]("hidden" \in messageDiv.classes)
  /\ []((msgAge >= HideDelay /\ (timers = <<>> \/ Head(timers) > 0))
          => "hidden" \in messageDiv.classes)
  /\ [][("hidden" \in messageDiv.classes /\ nShown' = nShown)
          => "hidden" \in messageDiv'.classes]_vars

C19_Witness ==
  /\ nShown = 2
  /\ "hidden" \in messageDiv.classes
  /\ hiddenEarly
  /\ msgAge = HideDelay
  /\ timers = <<>>

=============================================================================
